---- MODULE Spec2Model ----
(***************************************************************************)
(* Model of src/app.py, the Vevor inverter -> MQTT bridge: the scalar      *)
(* codec, the bit decoders, the operation-mode classifier, the snapshot    *)
(* decoder (parse_snapshot) and the poll loop of main().                   *)
(*                                                                         *)
(* Python lists are sequences; Python index k is TLA+ index k + 1.         *)
(* An Optional value is None or Some(v). A float x / 10.0 is kept as the exact     *)
(* fraction [num |-> x, den |-> 10]. Texts whose characters the code       *)
(* inspects (work_mode_str) are tuples of one-character strings; other     *)
(* texts are strings. The wall-clock field ts of the snapshot is not       *)
(* modelled.                                                               *)
(***************************************************************************)
EXTENDS Integers, Sequences, FiniteSets, TLC

VARIABLES
    pc,                 \* position of main() (line of src/app.py about to run)
    poll,               \* args.poll, the configured poll interval
    last_flow_status,   \* main()'s local last_flow_status
    block200,           \* main()'s local block200, None until this iteration assigns it
    block100,           \* main()'s local block100, likewise
    snap,               \* main()'s local snap, likewise
    op_mode,            \* main()'s local op_mode, likewise
    pending,            \* the mq.publish calls the statements now running still make
    pub_idx,            \* number of mq.publish calls of this cycle already made
    published,          \* history: messages handed to mq.publish in this cycle
    slept,              \* history: durations passed to time.sleep since the cycle began
    outcome,            \* history: how this cycle ended ("running" until it ends)
    flow_log,           \* history: writes of last_flow_status in this cycle
    decoded_flow,       \* history: flow_status of the last snapshot decoded, None before
    call,               \* direct call of a pure function: its name and arguments
    ret                 \* result of that call

vars == <<pc, poll, last_flow_status, block200, block100, snap, op_mode,
          pending, pub_idx, published, slept, outcome, flow_log,
                   decoded_flow, call, ret>>

loop_vars == <<pc, poll, last_flow_status, block200, block100, snap, op_mode,
               pending, pub_idx, published, slept, outcome, flow_log,
               decoded_flow>>

\* Optional[T]: None, or Some(v) with the value in field val
None == [none |-> TRUE]

Some(v) == [val |-> v]

\* ------------------------------------------------------------------ bounds

\* a device may answer a read with up to this many words more than asked
ExtraWords == 1

\* ------------------------------------------------------------- arithmetic

\* 1 << n for the shifts the code makes, n in 0..16
Pow2(n) ==
    <<1, 2, 4, 8, 16, 32, 64, 128, 256, 512, 1024, 2048, 4096, 8192, 16384,
      32768, 65536>>[n + 1]

\* value & (1 << bit) is non-zero, for value >= 0
BitSet(value, bit) == ((value \div Pow2(bit)) % 2) = 1

\* prev ^ now on 16-bit values
RECURSIVE XorBits(_, _, _)
XorBits(a, b, n) ==
    IF n = 0 THEN 0
    ELSE (((a % 2) + (b % 2)) % 2) + (2 * XorBits(a \div 2, b \div 2, n - 1))

Xor(a, b) == XorBits(a, b, 16)

\* decimal digits of a natural number, as str() writes them
RECURSIVE Digits(_)
Digits(n) ==
    LET d == <<"0", "1", "2", "3", "4", "5", "6", "7", "8", "9">>
    IN  IF n < 10 THEN <<d[n + 1]>> ELSE Digits(n \div 10) \o <<d[(n % 10) + 1]>>

UpperAlpha == <<"A", "B", "C", "D", "E", "F", "G", "H", "I", "J", "K", "L", "M",
                "N", "O", "P", "Q", "R", "S", "T", "U", "V", "W", "X", "Y", "Z">>

LowerAlpha == <<"a", "b", "c", "d", "e", "f", "g", "h", "i", "j", "k", "l", "m",
                "n", "o", "p", "q", "r", "s", "t", "u", "v", "w", "x", "y", "z">>

\* str.lower() on a tuple of characters
LowerChar(c) ==
    IF \E i \in 1..26 : UpperAlpha[i] = c
    THEN LowerAlpha[CHOOSE i \in 1..26 : UpperAlpha[i] = c]
    ELSE c

Lower(s) == [i \in 1..Len(s) |-> LowerChar(s[i])]

\* str.startswith(prefix) on tuples of characters
StartsWith(s, prefix) ==
    /\ Len(s) >= Len(prefix)
    /\ SubSeq(s, 1, Len(prefix)) = prefix

\* sep.join(parts) on strings, from part i on
RECURSIVE JoinFrom(_, _, _)
JoinFrom(parts, sep, i) ==
    IF i > Len(parts) THEN ""
    ELSE IF i = Len(parts) THEN parts[i]
    ELSE parts[i] \o sep \o JoinFrom(parts, sep, i + 1)

Join(parts, sep) == JoinFrom(parts, sep, 1)

\* ------------------------------------------------------------------ helpers

s16_Unsigned(x) == x

s16(x) == IF x < 32768 THEN x ELSE x - 65536

u16(x) == x % 65536

clamp_bad_power_NoCeiling(pin) == IF pin >= 65500 THEN 0 ELSE pin

clamp_bad_power(pin) == IF pin >= 65500 \/ pin > 10000 THEN 0 ELSE pin

\* bit_names is the dict as the sequence of its (bit, name) items, in
\* insertion order; the comprehension visits the items from index i on
RECURSIVE NamesFrom(_, _, _)
NamesFrom(value, bit_names, i) ==
    IF i > Len(bit_names) THEN <<>>
    ELSE (IF BitSet(value, bit_names[i][1]) THEN <<bit_names[i][2]>> ELSE <<>>)
         \o NamesFrom(value, bit_names, i + 1)

bits_to_names(value, bit_names) == NamesFrom(value, bit_names, 1)

\* the comprehension over range(bit, stop)
RECURSIVE BitsFrom(_, _, _)
BitsFrom(flow_status, bit, stop) ==
    IF bit >= stop THEN <<>>
    ELSE (IF BitSet(flow_status, bit) THEN <<bit>> ELSE <<>>)
         \o BitsFrom(flow_status, bit + 1, stop)

flow_bits_list_From1(flow_status) == BitsFrom(flow_status, 1, 16)

flow_bits_list(flow_status) == BitsFrom(flow_status, 0, 16)

flow_bits_text(flow_status) ==
    LET bits == flow_bits_list(flow_status)
    IN  Join([i \in 1..Len(bits) |-> "b" \o ToString(bits[i])], ", ")

\* -------------------------------------------------------------- classifier

derived_operation_mode_BatteryFirst(mains_w, bat_w, pv_w, out_w) ==
    IF bat_w < -30 THEN "INVERTER_BATTERY_DISCHARGE"
    ELSE IF bat_w > 30 THEN "PV_SURPLUS_CHARGING"
    ELSE IF mains_w > 50 THEN "BYPASS_GRID"
    ELSE IF pv_w > 30 /\ out_w > 30 THEN "PV_SUPPLYING_NEAR_BALANCED"
    ELSE "IDLE_OR_UNKNOWN"

derived_operation_mode(mains_w, bat_w, pv_w, out_w) ==
    IF mains_w > 50 THEN "BYPASS_GRID"
    ELSE IF bat_w < -30 THEN "INVERTER_BATTERY_DISCHARGE"
    ELSE IF bat_w > 30 THEN "PV_SURPLUS_CHARGING"
    ELSE IF pv_w > 30 /\ out_w > 30 THEN "PV_SUPPLYING_NEAR_BALANCED"
    ELSE "IDLE_OR_UNKNOWN"

\* ------------------------------------------------------------------ tables

WORK_MODE_MAP ==
    [m \in 0..6 |->
        CASE m = 0 -> <<"S", "t", "a", "n", "d", "b", "y">>
          [] m = 1 -> <<"L", "i", "n", "e", "/", "A", "C">>
          [] m = 2 -> <<"B", "y", "p", "a", "s", "s", "/", "G", "r", "i", "d", " ",
                        "S", "u", "p", "p", "l", "y">>
          [] m = 3 -> <<"I", "n", "v", "e", "r", "t", "e", "r", " ",
                        "S", "u", "p", "p", "l", "y">>
          [] m = 4 -> <<"F", "a", "u", "l", "t">>
          [] m = 5 -> <<"S", "h", "u", "t", "d", "o", "w", "n">>
          [] m = 6 -> <<"B", "y", "p", "a", "s", "s", " ", "(", "a", "l", "t", ")">>]

GENERIC_STATUS_BITS ==
    << <<0, "Inverter On">>, <<1, "Output Active">>, <<2, "Charging">>,
       <<3, "Discharging">>, <<4, "Grid Present">>, <<5, "PV Present">>,
       <<6, "Battery Low">>, <<7, "Battery Full">>, <<8, "Fault">>,
       <<9, "Line Mode">>, <<10, "Bypass Mode">>, <<11, "Overload">>,
       <<12, "Over Temp">> >>

\* ---------------------------------------------------------- parse_snapshot

\* x / d as a float, kept exact
Scaled(x, d) == [num |-> x, den |-> d]

\* the addresses the nested r() is called with, in the order of the calls
PrimaryAddrs ==
    <<201, 202, 203, 204, 210, 211, 212, 213, 214, 215, 216, 217, 219, 220,
      223, 224, 225, 226, 227, 228, 229, 231, 232, 233, 234>>

\* blk200[addr - 200] raises IndexError for this block (addr - 200 >= 1, so
\* Python's negative indexing never applies)
IndexOutOfRange(block, addr, base) == addr - base >= Len(block)

r(blk200, addr) == blk200[(addr - 200) + 1]

r100(blk100, addr) == blk100[(addr - 100) + 1]

\* WORK_MODE_MAP.get(work_mode, f"Unknown({work_mode})")
work_mode_name(work_mode) ==
    IF work_mode \in DOMAIN WORK_MODE_MAP THEN WORK_MODE_MAP[work_mode]
    ELSE <<"U", "n", "k", "n", "o", "w", "n", "(">> \o Digits(work_mode) \o <<")">>

\* `if block100 and len(block100) >= 40`, block100 being Optional[List[int]]
aux_usable_AnyLength(blk100) == blk100 # None /\ Len(blk100.val) > 0

aux_usable(blk100) ==
    blk100 # None /\ Len(blk100.val) > 0 /\ Len(blk100.val) >= 40

fault_active_WorkModeOnly(work_mode_str, fault_word, decoded_status_bits) ==
    StartsWith(Lower(work_mode_str), <<"f", "a", "u", "l", "t">>)

\* lines 313-317
fault_active_of(work_mode_str, fault_word, decoded_status_bits) ==
    \/ StartsWith(Lower(work_mode_str), <<"f", "a", "u", "l", "t">>)
    \/ (fault_word # None /\ fault_word.val # 0)
    \/ /\ decoded_status_bits # None
       /\ Len(decoded_status_bits.val) > 0
       /\ \E i \in 1..Len(decoded_status_bits.val) : decoded_status_bits.val[i] = "Fault"

bat_p_of(blk200) == s16(r(blk200, 217))

\* the snapshot built from blocks long enough for every index
snapshot_of(blk200, blk100) ==
    LET work_mode == u16(r(blk200, 201))
        work_mode_str == work_mode_name(work_mode)
        pv_avg_p == u16(r(blk200, 223))
        aux == aux_usable(blk100)
        status_word == IF aux THEN Some(u16(r100(blk100.val, 101))) ELSE None
        warn_word == IF aux THEN Some(u16(r100(blk100.val, 102))) ELSE None
        fault_word == IF aux THEN Some(u16(r100(blk100.val, 103))) ELSE None
        decoded_status_bits ==
            IF aux THEN Some(bits_to_names(status_word.val, GENERIC_STATUS_BITS))
            ELSE None
    IN  [ work_mode |-> work_mode,
          work_mode_str |-> work_mode_str,
          mains_v |-> Scaled(u16(r(blk200, 202)), 10),
          mains_hz |-> Scaled(u16(r(blk200, 203)), 100),
          mains_p |-> s16(r(blk200, 204)),
          out_v |-> Scaled(u16(r(blk200, 210)), 10),
          out_a |-> Scaled(u16(r(blk200, 211)), 10),
          out_hz |-> Scaled(u16(r(blk200, 212)), 100),
          out_p |-> s16(r(blk200, 213)),
          batt_charge_current |-> Scaled(u16(r(blk200, 214)), 10),
          bat_v |-> Scaled(u16(r(blk200, 215)), 10),
          bat_a |-> Scaled(s16(r(blk200, 216)), 10),
          bat_p |-> bat_p_of(blk200),
          pv_v |-> Scaled(u16(r(blk200, 219)), 10),
          pv_a |-> Scaled(s16(r(blk200, 220)), 10),
          pv_p |-> clamp_bad_power(pv_avg_p),
          pv_avg_p |-> pv_avg_p,
          pv_avg_charge_p |-> u16(r(blk200, 224)),
          load_pct |-> u16(r(blk200, 225)),
          chg_temp |-> s16(r(blk200, 226)),
          inv_temp |-> s16(r(blk200, 227)),
          mppt_temp |-> s16(r(blk200, 228)),
          soc |-> u16(r(blk200, 229)),
          flow_status |-> u16(r(blk200, 231)),
          batt_avg_i |-> Scaled(s16(r(blk200, 232)), 10),
          inv_avg_i |-> Scaled(s16(r(blk200, 233)), 10),
          pv_avg_i |-> Scaled(s16(r(blk200, 234)), 10),
          status_word |-> status_word,
          warn_word |-> warn_word,
          fault_word |-> fault_word,
          decoded_status_bits |-> decoded_status_bits,
          fault_active |->
              fault_active_of(work_mode_str, fault_word, decoded_status_bits) ]

\* The outcome of parse_snapshot(block200, block100), block200 a list: the
\* snapshot returned, or the IndexError the first r() past the end raises.
\* r100 reads indexes 1..3 of a block of at least 40 words and cannot raise.
parse_snapshot(blk200, blk100) ==
    IF \E i \in 1..Len(PrimaryAddrs) : IndexOutOfRange(blk200, PrimaryAddrs[i], 200)
    THEN [kind |-> "raise", exc |-> "IndexError"]
    ELSE [kind |-> "return", value |-> snapshot_of(blk200, blk100)]

\* ------------------------------------------------------------------ inputs

\* A register image of the device, offset -> word; offsets the decoder does
\* not read hold 7000 + offset, so that every offset is told apart.
SampleWord(k) ==
    CASE k = 1 -> 3      [] k = 2 -> 2301   [] k = 3 -> 5000   [] k = 4 -> 0
      [] k = 10 -> 2300  [] k = 11 -> 26    [] k = 12 -> 4998  [] k = 13 -> 600
      [] k = 14 -> 12    [] k = 15 -> 265   [] k = 16 -> 65479 [] k = 17 -> 65386
      [] k = 19 -> 1200  [] k = 20 -> 67    [] k = 23 -> 800   [] k = 24 -> 790
      [] k = 25 -> 17    [] k = 26 -> 35    [] k = 27 -> 41    [] k = 28 -> 65526
      [] k = 29 -> 87    [] k = 31 -> 593   [] k = 32 -> 65480 [] k = 33 -> 27
      [] k = 34 -> 66    [] OTHER -> 7000 + k

\* a primary block of len words with the given words at offsets 1, 4, 13, 17, 23, 31
MkBlock200(len, wm, mains, out, bat, pv, flow) ==
    [i \in 1..len |->
        CASE i - 1 = 1 -> wm    [] i - 1 = 4 -> mains  [] i - 1 = 13 -> out
          [] i - 1 = 17 -> bat  [] i - 1 = 23 -> pv    [] i - 1 = 31 -> flow
          [] OTHER -> SampleWord(i - 1)]

SampleBlock200(len) == [i \in 1..len |-> SampleWord(i - 1)]

\* an auxiliary block of len words with the given words at offsets 1, 2, 3
MkBlock100(len, status, warn, fault) ==
    [i \in 1..len |->
        CASE i - 1 = 1 -> status [] i - 1 = 2 -> warn [] i - 1 = 3 -> fault
          [] OTHER -> 100 + i - 1]

\* 16-bit words around every threshold of the code, and one word in each 257
WordSamples ==
    {0, 1, 2, 5, 30, 31, 50, 51, 255, 256, 593, 597, 9999, 10000, 10001,
     32767, 32768, 32769, 65386, 65499, 65500, 65501, 65535}
    \cup {257 * k : k \in 0..255}

\* integer powers around every threshold of the classifier
PowerSamples == {-150, -31, -30, 0, 30, 31, 50, 51, 100, 500, 600, 800}

\* every listed work mode, and one outside the table
WorkModeWords == 0..7

MainsWords == {0, 100}

OutputWords == {30, 600}

BatteryWords == {0, 500, 65386}

PvWords == {0, 800, 10000, 10001, 65499, 65500, 65535}

FlowWords == {593, 597}

\* status words: no flag, the fault flag (bit 8), a flag outside the table (bit 13)
StatusWords == {0, 256, 8193}

FaultWords == {0, 5}

\* what a read of the auxiliary block can yield: a failure, an empty list, a
\* short list, and lists of the count asked for or longer
AuxBlocks ==
    {None, Some(<<>>), Some(MkBlock100(39, 256, 0, 5))}
    \cup {Some(MkBlock100(len, st, 1, f)) :
            len \in {40, 40 + ExtraWords}, st \in StatusWords, f \in FaultWords}

\* primary blocks handed to parse_snapshot directly: the register image cut
\* at every length up to the count asked for and beyond, and blocks of that
\* count over the word samples
ParseBlocks ==
    {SampleBlock200(len) : len \in 0..(60 + ExtraWords)}
    \cup {MkBlock200(60, wm, m, o, b, pv, fl) :
            wm \in WorkModeWords, m \in MainsWords, o \in OutputWords,
            b \in BatteryWords, pv \in PvWords, fl \in FlowWords}

NameTables ==
    {GENERIC_STATUS_BITS, <<>>, << <<5, "five">>, <<2, "two">> >>,
     << <<15, "top">>, <<0, "low">>, <<9, "nine">> >>}

\* ------------------------------------------------------------ publishing

\* publish_discovery, then publish_state: the two messages a publish_* call
\* hands to mq.publish. The JSON payload of the discovery config is kept as
\* the unique_id alone.
publish_pair(component, unique_id, value) ==
    << [component |-> component, unique_id |-> unique_id, kind |-> "config",
        payload |-> [unique_id |-> unique_id]],
       [component |-> component, unique_id |-> unique_id, kind |-> "state",
        payload |-> value] >>

\* publish_sensor and publish_text_sensor publish under component "sensor"
Sensor(unique_id, value) == publish_pair("sensor", unique_id, value)

\* publish_binary_sensor publishes ON / OFF under "binary_sensor"
Binary(unique_id, value_bool) ==
    publish_pair("binary_sensor", unique_id, IF value_bool THEN "ON" ELSE "OFF")

\* lines 415-416: the messages of the publish_* calls made before the
\* classifier runs
core_calls(sn) ==
    Sensor("vevor_work_mode_raw", sn.work_mode)
    \o Sensor("vevor_work_mode", sn.work_mode_str)

\* lines 465-477: the optional raw status words
status_calls(sn) ==
    (IF sn.status_word # None
     THEN Sensor("vevor_status_word_raw", sn.status_word.val)
          \o Sensor("vevor_status_word_decoded",
                    IF sn.decoded_status_bits # None
                       /\ Len(sn.decoded_status_bits.val) > 0
                    THEN Join(sn.decoded_status_bits.val, ", ") ELSE "")
     ELSE <<>>)
    \o (IF sn.warn_word # None
        THEN Sensor("vevor_warn_word_raw", sn.warn_word.val) ELSE <<>>)
    \o (IF sn.fault_word # None
        THEN Sensor("vevor_fault_word_raw", sn.fault_word.val) ELSE <<>>)

\* lines 419-484: the messages of the publish_* calls made after the
\* classifier ran
mode_calls(sn, op) ==
    Sensor("vevor_operation_mode_derived", op)
    \o Sensor("vevor_mains_voltage", sn.mains_v)
    \o Sensor("vevor_mains_frequency", sn.mains_hz)
    \o Sensor("vevor_mains_power", sn.mains_p)
    \o Sensor("vevor_ac_output_voltage", sn.out_v)
    \o Sensor("vevor_ac_output_current", sn.out_a)
    \o Sensor("vevor_ac_output_frequency", sn.out_hz)
    \o Sensor("vevor_ac_output_power", sn.out_p)
    \o Sensor("vevor_battery_voltage", sn.bat_v)
    \o Sensor("vevor_battery_current", sn.bat_a)
    \o Sensor("vevor_battery_power", sn.bat_p)
    \o Sensor("vevor_battery_soc", sn.soc)
    \o Sensor("vevor_battery_charge_current", sn.batt_charge_current)
    \o Sensor("vevor_pv_voltage", sn.pv_v)
    \o Sensor("vevor_pv_current", sn.pv_a)
    \o Sensor("vevor_pv_power", sn.pv_p)
    \o Sensor("vevor_pv_avg_power", sn.pv_avg_p)
    \o Sensor("vevor_pv_avg_charge_power", sn.pv_avg_charge_p)
    \o Sensor("vevor_load_percent", sn.load_pct)
    \o Sensor("vevor_charger_temp", sn.chg_temp)
    \o Sensor("vevor_inverter_temp", sn.inv_temp)
    \o Sensor("vevor_mppt_temp", sn.mppt_temp)
    \o Sensor("vevor_battery_avg_current", sn.batt_avg_i)
    \o Sensor("vevor_inverter_avg_current", sn.inv_avg_i)
    \o Sensor("vevor_pv_avg_current", sn.pv_avg_i)
    \o Sensor("vevor_flow_status_raw", sn.flow_status)
    \o Sensor("vevor_flow_bits", flow_bits_text(sn.flow_status))
    \o Binary("vevor_flow_bit2", BitSet(sn.flow_status, 2))
    \o status_calls(sn)
    \o Binary("vevor_grid_importing", sn.mains_p > 50)
    \o Binary("vevor_battery_discharging", sn.bat_p < -30)
    \o Binary("vevor_battery_charging", sn.bat_p > 30)
    \o Binary("vevor_pv_present", sn.pv_p > 30)
    \o Binary("vevor_fault_active", sn.fault_active)

\* ----------------------------------------------------------------- reading

\* What client.read_holding_registers can do: return None, return an error
\* response, raise ModbusIOException, raise another exception, or return
\* registers. read_block turns everything but registers into None.
read_block(reply) ==
    IF reply.kind = "registers" THEN Some(reply.registers) ELSE None

ReplyFailures ==
    {[kind |-> "none"], [kind |-> "error"], [kind |-> "ModbusIOException"],
     [kind |-> "Exception"]}

\* replies to the read of 60 words at 200: failures, an empty and a short
\* list, and full lists (the scenario of the specification, a flow change, a
\* fault with a garbage PV word, an unknown work mode above the PV ceiling)
PrimaryReplies ==
    ReplyFailures
    \cup {[kind |-> "registers", registers |-> b] :
            b \in {<<>>, SampleBlock200(59),
                   MkBlock200(60, 3, 0, 600, 65386, 800, 593),
                   MkBlock200(60, 3, 0, 600, 65386, 800, 597),
                   MkBlock200(60, 4, 100, 600, 500, 65535, 593),
                   MkBlock200(60 + ExtraWords, 7, 0, 30, 0, 10001, 597)}}

\* replies to the read of 40 words at 100
AuxReplies ==
    ReplyFailures
    \cup {[kind |-> "registers", registers |-> b] :
            b \in {<<>>, MkBlock100(39, 256, 0, 5),
                   MkBlock100(40, 0, 1, 0), MkBlock100(40, 256, 1, 0),
                   MkBlock100(40, 8193, 1, 5),
                   MkBlock100(40 + ExtraWords, 0, 1, 5)}}

\* ------------------------------------------------------------------ main()

\* `not block200 or len(block200) < 60`, block200 being Optional[List[int]]
primary_unusable_Min35(blk) ==
    blk = None \/ Len(blk.val) = 0 \/ Len(blk.val) < 35

primary_unusable(blk) ==
    blk = None \/ Len(blk.val) = 0 \/ Len(blk.val) < 60

\* positions inside the try body of the loop at which an exception may surface
TryBody ==
    {"connect", "read", "check", "parse", "publish_core", "classify", "publish",
     "flow", "summary"}

\* positions of the three time.sleep(args.poll) calls
SleepPcs == {"sleep_connect", "sleep_short", "sleep"}

Init ==
    /\ pc = "mqtt_connect"
    /\ poll \in {5, 10}
    /\ last_flow_status = None
    /\ block200 = None
    /\ block100 = None
    /\ snap = None
    /\ op_mode = None
    /\ pending = <<>>
    /\ pub_idx = 0
    /\ published = <<>>
    /\ slept = <<>>
    /\ outcome = "none"
    /\ flow_log = <<>>
    /\ decoded_flow = None
    /\ call = [fn |-> "none"]
    /\ ret = None

\* lines 376-379: the broker is reached, the loop is entered
MqttConnected ==
    /\ pc = "mqtt_connect"
    /\ pc' = "loop_top"
    /\ UNCHANGED <<poll, last_flow_status, block200, block100, snap, op_mode,
                   pending, pub_idx, published, slept, outcome, flow_log,
                   decoded_flow, call, ret>>

\* lines 380-382: SystemExit(1) before the loop is entered
MqttFailed ==
    /\ pc = "mqtt_connect"
    /\ pc' = "exit"
    /\ UNCHANGED <<poll, last_flow_status, block200, block100, snap, op_mode,
                   pending, pub_idx, published, slept, outcome, flow_log,
                   decoded_flow, call, ret>>

\* lines 397-398: an iteration begins. block200, block100, snap and op_mode
\* are dead here (each is assigned in the iteration before it is read), so
\* they are forgotten; the histories of the cycle start empty.
BeginCycle ==
    /\ pc = "loop_top"
    /\ pc' = "connect"
    /\ block200' = None
    /\ block100' = None
    /\ snap' = None
    /\ op_mode' = None
    /\ pending' = <<>>
    /\ pub_idx' = 0
    /\ published' = <<>>
    /\ slept' = <<>>
    /\ outcome' = "running"
    /\ flow_log' = <<>>
    /\ UNCHANGED <<poll, last_flow_status, decoded_flow, call, ret>>

\* line 399: client.connect() returns True or False
Connect ==
    /\ pc = "connect"
    /\ \E ok \in BOOLEAN : pc' = IF ok THEN "read" ELSE "sleep_connect"
    /\ UNCHANGED <<poll, last_flow_status, block200, block100, snap, op_mode,
                   pending, pub_idx, published, slept, outcome, flow_log,
                   decoded_flow, call, ret>>

\* lines 404-405: both blocks are read, whatever the first read yields
ReadBlocks ==
    /\ pc = "read"
    /\ \E r200 \in PrimaryReplies, r1 \in AuxReplies :
        /\ block200' = read_block(r200)
        /\ block100' = read_block(r1)
    /\ pc' = "check"
    /\ UNCHANGED <<poll, last_flow_status, snap, op_mode, pending, pub_idx,
                   published, slept, outcome, flow_log,
                   decoded_flow, call, ret>>

\* line 407
CheckPrimary ==
    /\ pc = "check"
    /\ pc' = IF primary_unusable(block200) THEN "sleep_short" ELSE "parse"
    /\ UNCHANGED <<poll, last_flow_status, block200, block100, snap, op_mode,
                   pending, pub_idx, published, slept, outcome, flow_log,
                   decoded_flow, call, ret>>

\* line 412; lines 415-416 are entered with their mq.publish calls pending
Parse ==
    /\ pc = "parse"
    /\ LET res == parse_snapshot(block200.val, block100)
       IN  IF res.kind = "raise"
           THEN /\ pc' = "except"
                /\ UNCHANGED <<snap, pending, decoded_flow>>
           ELSE /\ pc' = "publish_core"
                /\ snap' = res.value
                /\ pending' = core_calls(res.value)
                /\ decoded_flow' = Some(res.value.flow_status)
    /\ UNCHANGED <<poll, last_flow_status, block200, block100, op_mode, pub_idx,
                   published, slept, outcome, flow_log, call, ret>>

\* lines 415-416, one mq.publish at a time
PublishCore ==
    /\ pc = "publish_core"
    /\ published' = Append(published, Head(pending))
    /\ pending' = Tail(pending)
    /\ pub_idx' = pub_idx + 1
    /\ pc' = IF Len(pending) = 1 THEN "classify" ELSE "publish_core"
    /\ UNCHANGED <<poll, last_flow_status, block200, block100, snap, op_mode,
                   slept, outcome, flow_log,
                   decoded_flow, call, ret>>

\* line 418; lines 419-484 are entered with their mq.publish calls pending
Classify ==
    /\ pc = "classify"
    /\ LET op == derived_operation_mode(snap.mains_p, snap.bat_p, snap.pv_p,
                                        snap.out_p)
       IN  /\ op_mode' = Some(op)
           /\ pending' = mode_calls(snap, op)
    /\ pc' = "publish"
    /\ UNCHANGED <<poll, last_flow_status, block200, block100, snap, pub_idx,
                   published, slept, outcome, flow_log,
                   decoded_flow, call, ret>>

\* lines 419-484, one mq.publish at a time
Publish ==
    /\ pc = "publish"
    /\ published' = Append(published, Head(pending))
    /\ pending' = Tail(pending)
    /\ pub_idx' = pub_idx + 1
    /\ pc' = IF Len(pending) = 1 THEN "flow" ELSE "publish"
    /\ UNCHANGED <<poll, last_flow_status, block200, block100, snap, op_mode,
                   slept, outcome, flow_log,
                   decoded_flow, call, ret>>

\* lines 487-494; flow_log records each assignment of last_flow_status
FlowChange ==
    /\ pc = "flow"
    /\ IF last_flow_status = None
       THEN /\ last_flow_status' = Some(snap.flow_status)
            /\ flow_log' = Append(flow_log, [event |-> "first", now |-> snap.flow_status])
       ELSE IF snap.flow_status # last_flow_status.val
       THEN /\ last_flow_status' = Some(snap.flow_status)
            /\ flow_log' = Append(flow_log,
                    [event |-> "FLOW CHANGED", prev |-> last_flow_status.val,
                     now |-> snap.flow_status,
                     diff |-> Xor(last_flow_status.val, snap.flow_status),
                     bits |-> flow_bits_text(Xor(last_flow_status.val, snap.flow_status))])
       ELSE UNCHANGED <<last_flow_status, flow_log>>
    /\ pc' = "summary"
    /\ UNCHANGED <<poll, block200, block100, snap, op_mode, pending, pub_idx,
                   published, slept, outcome, decoded_flow, call, ret>>

\* lines 497-503: the summary log ends the try body
Summary ==
    /\ pc = "summary"
    /\ pc' = "sleep"
    /\ outcome' = "ok"
    /\ UNCHANGED <<poll, last_flow_status, block200, block100, snap, op_mode,
                   pending, pub_idx, published, slept, flow_log,
                   decoded_flow, call, ret>>

\* an exception surfaces somewhere in the try body
Raise ==
    /\ pc \in TryBody
    /\ pc' = "except"
    /\ UNCHANGED <<poll, last_flow_status, block200, block100, snap, op_mode,
                   pending, pub_idx, published, slept, outcome, flow_log,
                   decoded_flow, call, ret>>

LoopError_Propagates ==
    /\ pc = "except"
    /\ pc' = "crashed"
    /\ outcome' = "error"
    /\ UNCHANGED <<poll, last_flow_status, block200, block100, snap, op_mode,
                   pending, pub_idx, published, slept, flow_log,
                   decoded_flow, call, ret>>

\* lines 505-506: `except Exception` logs and falls through to line 508
LoopError ==
    /\ pc = "except"
    /\ pc' = "sleep"
    /\ outcome' = "error"
    /\ UNCHANGED <<poll, last_flow_status, block200, block100, snap, op_mode,
                   pending, pub_idx, published, slept, flow_log,
                   decoded_flow, call, ret>>

SleepThenContinue_FallsThrough ==
    /\ pc \in {"sleep_connect", "sleep_short"}
    /\ slept' = Append(slept, poll)
    /\ outcome' = IF pc = "sleep_connect" THEN "connect_failed" ELSE "skipped"
    /\ pc' = "sleep"
    /\ UNCHANGED <<poll, last_flow_status, block200, block100, snap, op_mode,
                   pending, pub_idx, published, flow_log,
                   decoded_flow, call, ret>>

\* lines 401-402 and 409-410: time.sleep(args.poll), then `continue`
SleepThenContinue ==
    /\ pc \in {"sleep_connect", "sleep_short"}
    /\ slept' = Append(slept, poll)
    /\ outcome' = IF pc = "sleep_connect" THEN "connect_failed" ELSE "skipped"
    /\ pc' = "loop_top"
    /\ UNCHANGED <<poll, last_flow_status, block200, block100, snap, op_mode,
                   pending, pub_idx, published, flow_log,
                   decoded_flow, call, ret>>

\* line 508: time.sleep(args.poll) after the try statement
Sleep ==
    /\ pc = "sleep"
    /\ slept' = Append(slept, poll)
    /\ pc' = "loop_top"
    /\ UNCHANGED <<poll, last_flow_status, block200, block100, snap, op_mode,
                   pending, pub_idx, published, outcome, flow_log,
                   decoded_flow, call, ret>>

Next ==
    \/ MqttConnected
    \/ MqttFailed
    \/ BeginCycle
    \/ Connect
    \/ ReadBlocks
    \/ CheckPrimary
    \/ Parse
    \/ PublishCore
    \/ Classify
    \/ Publish
    \/ FlowChange
    \/ Summary
    \/ Raise
    \/ LoopError
    \/ SleepThenContinue
    \/ Sleep

Spec == Init /\ [][Next]_vars

\* The interpreter runs the single thread of main() on: every blocking call
\* (connect and read with timeout=1, time.sleep) returns.
FairSpec == Spec /\ WF_vars(Next)

\* ------------------------------------------- direct calls of the functions

\* the direct calls: each function with arguments over the samples
ClassifyCalls ==
    {[fn |-> "derived_operation_mode", mains_w |-> m, bat_w |-> b, pv_w |-> p,
      out_w |-> o] :
        m \in PowerSamples, b \in PowerSamples, p \in PowerSamples, o \in PowerSamples}

\* the calls that may follow an earlier call of the classifier
ClassifyAgain ==
    {[fn |-> "derived_operation_mode", mains_w |-> a[1], bat_w |-> a[2],
      pv_w |-> a[3], out_w |-> a[4]] :
        a \in {<<100, 500, 0, 0>>, <<0, -30, 0, 0>>, <<0, -31, 0, 0>>,
               <<0, 31, 0, 0>>, <<50, 0, 31, 31>>, <<0, -150, 800, 600>>}}

ParseCalls ==
    {[fn |-> "parse_snapshot", blk200 |-> b200, blk100 |-> b100] :
        b200 \in ParseBlocks, b100 \in AuxBlocks}

S16Calls == {[fn |-> "s16", x |-> x] : x \in WordSamples}

ClampCalls == {[fn |-> "clamp_bad_power", pin |-> pin] : pin \in WordSamples}

FlowBitsCalls == {[fn |-> "flow_bits_list", value |-> v] : v \in WordSamples}

BitsToNamesCalls ==
    {[fn |-> "bits_to_names", value |-> v, bit_names |-> t] :
        v \in WordSamples, t \in NameTables}

\* a call is drawn, pending (ret = None) until its function is applied
FnInit ==
    /\ pc = "mqtt_connect"
    /\ poll = 10
    /\ last_flow_status = None
    /\ block200 = None
    /\ block100 = None
    /\ snap = None
    /\ op_mode = None
    /\ pending = <<>>
    /\ pub_idx = 0
    /\ published = <<>>
    /\ slept = <<>>
    /\ outcome = "none"
    /\ flow_log = <<>>
    /\ decoded_flow = None
    /\ call \in ClassifyCalls \cup ParseCalls \cup S16Calls \cup ClampCalls
                \cup FlowBitsCalls \cup BitsToNamesCalls
    /\ ret = None

ApplyClassify ==
    /\ call.fn = "derived_operation_mode"
    /\ ret = None
    /\ ret' = Some(derived_operation_mode(call.mains_w, call.bat_w, call.pv_w, call.out_w))
    /\ UNCHANGED <<call, loop_vars>>

\* a later call of the classifier, after an earlier one returned
ApplyClassifyAgain ==
    /\ call.fn = "derived_operation_mode"
    /\ ret # None
    /\ \E c \in ClassifyAgain :
        /\ call' = c
        /\ ret' = Some(derived_operation_mode(c.mains_w, c.bat_w, c.pv_w, c.out_w))
    /\ UNCHANGED loop_vars

ApplyParse ==
    /\ call.fn = "parse_snapshot"
    /\ ret = None
    /\ ret' = Some(parse_snapshot(call.blk200, call.blk100))
    /\ UNCHANGED <<call, loop_vars>>

ApplyS16 ==
    /\ call.fn = "s16"
    /\ ret = None
    /\ ret' = Some(s16(call.x))
    /\ UNCHANGED <<call, loop_vars>>

ApplyClamp ==
    /\ call.fn = "clamp_bad_power"
    /\ ret = None
    /\ ret' = Some(clamp_bad_power(call.pin))
    /\ UNCHANGED <<call, loop_vars>>

ApplyFlowBits ==
    /\ call.fn = "flow_bits_list"
    /\ ret = None
    /\ ret' = Some(flow_bits_list(call.value))
    /\ UNCHANGED <<call, loop_vars>>

ApplyBitsToNames ==
    /\ call.fn = "bits_to_names"
    /\ ret = None
    /\ ret' = Some(bits_to_names(call.value, call.bit_names))
    /\ UNCHANGED <<call, loop_vars>>

FnNext ==
    \/ ApplyClassify
    \/ ApplyClassifyAgain
    \/ ApplyParse
    \/ ApplyS16
    \/ ApplyClamp
    \/ ApplyFlowBits
    \/ ApplyBitsToNames

FnSpec == FnInit /\ [][FnNext]_vars

\* ------------------------------------------------------------------ claims

\* the word at offset k of a Python list kept as a sequence
WordAt(block, k) == block[k + 1]

\* two's-complement reading of a 16-bit word, as the specification states it
Signed16(w) == IF w >= 32768 THEN w - 65536 ELSE w

ParseReturned ==
    /\ call.fn = "parse_snapshot"
    /\ ret # None
    /\ ret.val.kind = "return"

\* C1: derived_operation_mode returns the result of the first matching rule
\* in the order mains > 50, battery < -30, battery > 30, pv > 30 and
\* output > 30, else idle, with strict comparisons, whatever was called before.
C1_FirstMatchWins ==
    (call.fn = "derived_operation_mode" /\ ret # None) =>
        LET m == call.mains_w
            b == call.bat_w
            p == call.pv_w
            o == call.out_w
        IN  /\ m > 50 => ret.val = "BYPASS_GRID"
            /\ (m <= 50 /\ b < -30) => ret.val = "INVERTER_BATTERY_DISCHARGE"
            /\ (m <= 50 /\ b > 30) => ret.val = "PV_SURPLUS_CHARGING"
            /\ (m <= 50 /\ b >= -30 /\ b <= 30 /\ p > 30 /\ o > 30)
                   => ret.val = "PV_SUPPLYING_NEAR_BALANCED"
            /\ (m <= 50 /\ b >= -30 /\ b <= 30 /\ (p <= 30 \/ o <= 30))
                   => ret.val = "IDLE_OR_UNKNOWN"
            /\ (m <= 50 /\ b = -30) => ret.val # "INVERTER_BATTERY_DISCHARGE"
            /\ (m <= 50 /\ b = -31) => ret.val = "INVERTER_BATTERY_DISCHARGE"
            /\ (m = 100 /\ b = 500) => ret.val = "BYPASS_GRID"

\* a call with mains 100 and battery 500 has returned BYPASS_GRID
C1_Witness ==
    /\ call.fn = "derived_operation_mode"
    /\ call.mains_w = 100
    /\ call.bat_w = 500
    /\ ret = Some("BYPASS_GRID")

\* C2: parse_snapshot handed a primary block of 0..34 words ends in an
\* explicit InsufficientData failure, not in an out-of-range access and not
\* in a snapshot.
C2_ShortBlockIsInsufficientData ==
    (call.fn = "parse_snapshot" /\ ret # None /\ Len(call.blk200) <= 34) =>
        ret.val = [kind |-> "failure", error |-> "InsufficientData"]

\* C4: pv_p is 0 when the raw word at offset 23 is >= 65500 or above the
\* ceiling 10000 and the raw word otherwise; pv_avg_p and pv_avg_charge_p
\* are the raw words at offsets 23 and 24.
C4_AnomalyFilter ==
    /\ ParseReturned =>
        LET raw == WordAt(call.blk200, 23)
            sn == ret.val.value
        IN  /\ (raw >= 65500 \/ raw > 10000) => sn.pv_p = 0
            /\ ~(raw >= 65500 \/ raw > 10000) => sn.pv_p = raw
            /\ sn.pv_avg_p = raw
            /\ sn.pv_avg_charge_p = WordAt(call.blk200, 24)
    /\ (call.fn = "clamp_bad_power" /\ ret # None) =>
        /\ (call.pin >= 65500 \/ call.pin > 10000) => ret.val = 0
        /\ ~(call.pin >= 65500 \/ call.pin > 10000) => ret.val = call.pin

\* a raw word just above the ceiling was filtered to 0 and kept raw in pv_avg_p
C4_Witness ==
    /\ ParseReturned
    /\ WordAt(call.blk200, 23) = 10001
    /\ ret.val.value.pv_p = 0
    /\ ret.val.value.pv_avg_p = 10001

\* C5: fault_active is true exactly when the work-mode word is 4, or the
\* fault word is present and non-zero, or the status word is present and has
\* bit 8 set.
C5_FaultActiveIsOr ==
    ParseReturned =>
        LET aux == call.blk100 # None /\ Len(call.blk100.val) >= 40
            by_mode == WordAt(call.blk200, 1) = 4
            by_fault_word == aux /\ WordAt(call.blk100.val, 3) # 0
            by_status == aux /\ ((WordAt(call.blk100.val, 1) \div 256) % 2) = 1
        IN  ret.val.value.fault_active <=> (by_mode \/ by_fault_word \/ by_status)

\* the fault word alone asserts the fault: work mode 3, status bit 8 clear
C5_Witness ==
    /\ ParseReturned
    /\ WordAt(call.blk200, 1) = 3
    /\ call.blk100 # None
    /\ Len(call.blk100.val) >= 40
    /\ WordAt(call.blk100.val, 1) = 0
    /\ WordAt(call.blk100.val, 3) = 5
    /\ ret.val.value.fault_active

\* C7: mains_p, out_p and bat_p are the two's-complement readings of the
\* words at offsets 4, 13 and 17, pv_p is the filtered word at offset 23, and
\* the block encoding mains 0, battery -150, PV 800, output 600 decodes to
\* these values, which the classifier maps to BatteryDischarge.
C7_PowerSignals ==
    /\ ParseReturned =>
        LET sn == ret.val.value
        IN  /\ sn.mains_p = Signed16(WordAt(call.blk200, 4))
            /\ sn.out_p = Signed16(WordAt(call.blk200, 13))
            /\ sn.bat_p = Signed16(WordAt(call.blk200, 17))
            /\ sn.pv_p = (IF WordAt(call.blk200, 23) > 10000 THEN 0
                          ELSE WordAt(call.blk200, 23))
            /\ ( /\ WordAt(call.blk200, 4) = 0
                 /\ WordAt(call.blk200, 17) = 65386
                 /\ WordAt(call.blk200, 23) = 800
                 /\ WordAt(call.blk200, 13) = 600 )
               => /\ <<sn.mains_p, sn.bat_p, sn.pv_p, sn.out_p>> = <<0, -150, 800, 600>>
                  /\ derived_operation_mode(sn.mains_p, sn.bat_p, sn.pv_p, sn.out_p)
                         = "INVERTER_BATTERY_DISCHARGE"
    /\ (call.fn = "s16" /\ ret # None) => ret.val = Signed16(call.x)

\* the scenario block was decoded to mains 0, battery -150, PV 800, output 600
C7_Witness ==
    /\ ParseReturned
    /\ WordAt(call.blk200, 17) = 65386
    /\ ret.val.value.mains_p = 0
    /\ ret.val.value.bat_p = -150
    /\ ret.val.value.pv_p = 800
    /\ ret.val.value.out_p = 600

RECURSIVE SumPow2(_, _)
SumPow2(bits, i) == IF i > Len(bits) THEN 0 ELSE Pow2(bits[i]) + SumPow2(bits, i + 1)

\* the indices of table whose bit is set in v, as a set
SetItems(v, table) ==
    {i \in 1..Len(table) : ((v \div Pow2(table[i][1])) % 2) = 1}

\* C8: flow_bits_list returns exactly the indices 0..15 of the set bits, in
\* ascending order without duplicates, and bits_to_names exactly the names of
\* the table's bit indices set in the value, in the order of the table.
C8_BitDecoders ==
    /\ (call.fn = "flow_bits_list" /\ ret # None) =>
        /\ \A i \in 1..Len(ret.val) : ret.val[i] \in 0..15
        /\ \A i \in 1..Len(ret.val), j \in 1..Len(ret.val) :
               i < j => ret.val[i] < ret.val[j]
        /\ SumPow2(ret.val, 1) = call.value
        /\ call.value = 0 => ret.val = <<>>
        /\ call.value = 5 => ret.val = <<0, 2>>
    /\ (call.fn = "bits_to_names" /\ ret # None) =>
        LET set == SetItems(call.value, call.bit_names)
        IN  /\ Len(ret.val) = Cardinality(set)
            /\ \A i \in set :
                   ret.val[Cardinality({j \in set : j <= i})] = call.bit_names[i][2]

\* 0b101 was decoded to [0, 2]
C8_Witness ==
    /\ call.fn = "flow_bits_list"
    /\ call.value = 5
    /\ ret = Some(<<0, 2>>)

\* a cycle has ended: its outcome is recorded
Ended == {"connect_failed", "skipped", "error", "ok"}

\* C3: once the loop is entered it never terminates, every cycle ends, and
\* after every ended cycle, whatever its outcome, another cycle begins.
C3_PollingNeverStops ==
    /\ [](outcome # "none" => pc \notin {"exit", "crashed"})
    /\ (pc = "connect") ~> (outcome \in Ended)
    /\ (outcome \in Ended) ~> (pc = "connect")

\* a cycle that raised while publishing has ended, slept, and the loop is at
\* its top again
C3_Witness ==
    /\ pc = "loop_top"
    /\ outcome = "error"
    /\ Len(published) > 0
    /\ slept = <<poll>>

\* the auxiliary block of this cycle is missing, empty or shorter than 40 words
AuxMissing == block100 = None \/ Len(block100.val) < 40

\* the fields of a snapshot decoded from the primary block alone
PrimaryFields ==
    {"work_mode", "work_mode_str", "mains_v", "mains_hz", "mains_p", "out_v",
     "out_a", "out_hz", "out_p", "batt_charge_current", "bat_v", "bat_a",
     "bat_p", "pv_v", "pv_a", "pv_p", "pv_avg_p", "pv_avg_charge_p",
     "load_pct", "chg_temp", "inv_temp", "mppt_temp", "soc", "flow_status",
     "batt_avg_i", "inv_avg_i", "pv_avg_i"}

StatusIds ==
    {"vevor_status_word_raw", "vevor_status_word_decoded", "vevor_warn_word_raw",
     "vevor_fault_word_raw"}

\* C6: with the auxiliary block missing, empty or shorter than 40 words, the
\* status, warning and fault words and the flag list of the snapshot are
\* absent, no status, warning or fault word is published in the cycle, the
\* primary fields are those the same primary block yields with a valid
\* auxiliary block, and the cycle is skipped only for its primary block.
C6_MissingAuxiliaryBlock ==
    AuxMissing =>
        /\ snap # None =>
            /\ snap.status_word = None
            /\ snap.warn_word = None
            /\ snap.fault_word = None
            /\ snap.decoded_status_bits = None
            /\ LET full == snapshot_of(block200.val, Some(MkBlock100(40, 8193, 1, 5)))
               IN  \A f \in PrimaryFields : snap[f] = full[f]
        /\ \A i \in 1..Len(published) : published[i].unique_id \notin StatusIds
        /\ (block200 # None /\ Len(block200.val) >= 60) =>
               pc \notin {"sleep_short"} /\ outcome # "skipped"

\* a cycle without auxiliary block ran to its end and published every other value
C6_Witness ==
    /\ block100 = None
    /\ outcome = "ok"
    /\ snap # None
    /\ snap.status_word = None
    /\ Len(published) = 70

\* C9: when the loop is back at its top after a cycle, whatever the cycle's
\* outcome, exactly one sleep of the configured interval has occurred in it.
C9_OneFixedSleep ==
    /\ Len(slept) <= 1
    /\ \A i \in 1..Len(slept) : slept[i] = poll
    /\ (pc = "loop_top" /\ outcome \in Ended) => slept = <<poll>>

\* a skipped cycle has slept once and the loop is at its top
C9_Witness ==
    /\ pc = "loop_top"
    /\ outcome = "skipped"
    /\ slept = <<poll>>

\* C10: in a cycle whose connect failed or whose primary read gave a failure,
\* an empty list or fewer than 60 words, no snapshot is decoded, nothing is
\* published, last_flow_status is not written, and the cycle ends skipped:
\* a short block as a failed read.
C10_SkippedCycleHasNoEffect ==
    /\ (block200 = None \/ Len(block200.val) < 60) =>
        /\ snap = None
        /\ op_mode = None
        /\ published = <<>>
        /\ flow_log = <<>>
        /\ pc \notin {"parse", "publish_core", "classify", "publish", "flow", "summary"}
        /\ outcome # "ok"
    /\ (pc = "sleep_short" \/ outcome = "skipped") =>
        (block200 = None \/ Len(block200.val) < 60)
    /\ (pc = "sleep_connect" \/ outcome = "connect_failed") => block200 = None

\* a cycle whose primary block had 59 words was skipped while a flow status
\* was retained
C10_Witness ==
    /\ pc = "loop_top"
    /\ outcome = "skipped"
    /\ block200 # None
    /\ Len(block200.val) = 59
    /\ last_flow_status # None
    /\ published = <<>>

\* the value last_flow_status had when the current cycle began, read back from
\* the cycle's history of writes
RetainedAtStart ==
    IF flow_log = <<>> THEN last_flow_status
    ELSE IF flow_log[1].event = "first" THEN None
    ELSE Some(flow_log[1].prev)

\* C11: between cycles last_flow_status is unset if no snapshot has been
\* decoded yet and otherwise holds the flow_status of the most recent cycle
\* that decoded a snapshot, also when that cycle raised while publishing; it
\* is written at most once per cycle; and FLOW CHANGED, with previous XOR
\* current and the changed bit indices, is logged in exactly the cycles whose
\* decoded flow_status differs from the value retained at their start.
C11_RetainedIsLastDecodedFlow ==
    /\ pc = "loop_top" => last_flow_status = decoded_flow
    /\ Len(flow_log) <= 1
    /\ \A i \in 1..Len(flow_log) :
          flow_log[i].event = "FLOW CHANGED" =>
              /\ flow_log[i].now = snap.flow_status
              /\ flow_log[i].diff = Xor(flow_log[i].prev, flow_log[i].now)
              /\ flow_log[i].bits = flow_bits_text(flow_log[i].diff)
    /\ (pc = "loop_top" /\ snap # None) =>
          ((flow_log # <<>> /\ flow_log[1].event = "FLOW CHANGED")
              <=> (RetainedAtStart # None /\ RetainedAtStart.val # snap.flow_status))

====
